---- MODULE Spec2Model ----
(***************************************************************************)
(* Model of the stats-bar display driver (class StatsBar) and of the       *)
(* metric source adapters it polls (sysinfoData).                          *)
(*                                                                         *)
(* Numbers are integers in scaled units: a cpu load and a gpu utilisation  *)
(* in tenths of a percent, a load average in thousandths, memory in MiB,   *)
(* network rates in bytes per second, uptime in seconds.  A decimal string *)
(* produced by toFixed(d) is the integer holding its digits.               *)
(***************************************************************************)
EXTENDS Integers, Sequences, FiniteSets, TLC

\* ------------------------------------------------------------------ bounds
\* ticks (calls of getSysInfo) started in one run
MaxTicks == 2
\* times start() creates a fresh slot list in one run
MaxStarts == 2

\* ------------------------------------------------------- kinds and readings
AllSysModules == <<"cpuLoad", "loadavg", "networkSpeed", "memoUsage", "uptime", "gpuLoad">>

StatsModule == {AllSysModules[i] : i \in 1..Len(AllSysModules)}

StatsModuleNameMap ==
  [m \in StatsModule |->
     CASE m = "cpuLoad" -> "CpuLoad"
       [] m = "loadavg" -> "Loadavg"
       [] m = "networkSpeed" -> "NetworkSpeed"
       [] m = "memoUsage" -> "MemoryUsage"
       [] m = "uptime" -> "Uptime"
       [] m = "gpuLoad" -> "GpuLoad"]

\* a kind name the formatter and adapter tables do not hold
UnknownModule == "cpuSpeed"

\* the value an adapter resolves to when its try block threw (undefined), and null
Undefined == [def |-> FALSE]

Num(n) == [def |-> TRUE, num |-> n]

Arr(a) == [def |-> TRUE, arr |-> a]

Mem(total, used, active, pressure) ==
  [def |-> TRUE, total |-> total, used |-> used, active |-> active, pressure |-> pressure]

Net(up, down) == [def |-> TRUE, up |-> up, down |-> down]

Gpu(total, used, util) == [totalMemory |-> total, usedMemory |-> used, gpuUtilization |-> util]

\* pressurePercent is absent from the reading on every platform but darwin
NoPressure == -1

\* ------------------------------------------------------------- formatting
Placeholder == [tpl |-> "-", vals |-> <<>>]

\* the text of a status bar item that was never written
EmptyText == [tpl |-> "", vals |-> <<>>]

\* Number.prototype.toFixed: x is a number scaled by 10^k, the result its
\* digits rounded to k - drop decimals (ties round up)
toFixed(x, drop) ==
  LET p == IF drop = 0 THEN 1 ELSE IF drop = 1 THEN 10 ELSE IF drop = 2 THEN 100 ELSE 1000
  IN  (2 * x + p) \div (2 * p)

\* substitution of the dictionary into the kind's configured template
formatByDict(tpl, vals) == [tpl |-> tpl, vals |-> vals]

\* bytes / size with 2 decimals (size given), else scaled to the largest unit
\* of 1024^k not above the value; <<digits, unit index>>
formatBytes(n, size) ==
  IF size > 0 THEN <<(2 * 100 * n + size) \div (2 * size), 3>>
  ELSE IF n < 1024 THEN <<100 * n, 0>>
  ELSE IF n < 1024 * 1024 THEN <<(2 * 100 * n + 1024) \div (2 * 1024), 1>>
  ELSE <<(2 * 100 * n + 1024 * 1024) \div (2 * 1024 * 1024), 2>>

formatTimes(s) == <<s \div 86400, (s % 86400) \div 3600, (s % 3600) \div 60>>

formatCpuLoad(res) ==
  IF res.def /\ res.num # 0
    THEN formatByDict("cpuLoad", <<toFixed(res.num, 1)>>)
    ELSE Placeholder

formatLoadavg(res) ==
  IF res.def
    THEN formatByDict("loadavg",
           [i \in 1..3 |-> IF i <= Len(res.arr) THEN toFixed(res.arr[i], 1) ELSE 0])
    ELSE Placeholder

formatMemoUsage(res, isDarwin) ==
  IF res.def
    THEN LET used == formatBytes(IF isDarwin THEN res.used ELSE res.active, 1024)
             total == formatBytes(res.total, 1024)
             percent == (2 * 100 * used[1] + total[1]) \div (2 * total[1])
             pressurePercent == IF res.pressure = NoPressure THEN 0 ELSE toFixed(res.pressure, 1)
         IN  formatByDict("memoUsage", <<used[1], total[1], percent, pressurePercent>>)
    ELSE Placeholder

formatNetworkSpeed(res) ==
  IF res.def
    THEN LET up == formatBytes(res.up, 0)
             down == formatBytes(res.down, 0)
         IN  formatByDict("networkSpeed", <<up[1], up[2], down[1], down[2]>>)
    ELSE Placeholder

formatUptime(res) ==
  IF res.def /\ res.num # 0
    THEN formatByDict("uptime", formatTimes(res.num))
    ELSE Placeholder

formatGpuLoad(res) ==
  IF res.def /\ Len(res.arr) > 0
    THEN formatByDict("gpuLoad",
           <<toFixed(res.arr[1].gpuUtilization, 1),
             (2 * 100 * res.arr[1].usedMemory + 1024) \div (2 * 1024),
             (2 * 100 * res.arr[1].totalMemory + 1024) \div (2 * 1024)>>)
    ELSE Placeholder

formatRes(module, rawRes, isDarwin) ==
  [module |-> module,
   text |-> CASE module = "cpuLoad" -> formatCpuLoad(rawRes)
              [] module = "loadavg" -> formatLoadavg(rawRes)
              [] module = "memoUsage" -> formatMemoUsage(rawRes, isDarwin)
              [] module = "networkSpeed" -> formatNetworkSpeed(rawRes)
              [] module = "uptime" -> formatUptime(rawRes)
              [] module = "gpuLoad" -> formatGpuLoad(rawRes)
              [] OTHER -> Placeholder,
   tooltip |-> ""]

\* ------------------------------------------------------- source adapters
\* What each adapter can resolve to: Undefined when the call inside its try
\* block threw, else a reading (a bounded sample of the library's answers).
getCpuLoad == {Undefined, Num(0), Num(425)}

getLoadavg == {Undefined, Arr(<<1234, 500, 0>>)}

getNetworkSpeed == {Undefined, Net(0, 2048)}

getMemoryUsage(isDarwin) ==
  IF isDarwin
    THEN {Undefined, Mem(16384, 8192, 4096, 500), Mem(16384, 8192, 4096, 0)}
    ELSE {Undefined, Mem(16384, 8192, 4096, NoPressure), Mem(8192, 0, 0, NoPressure)}

getUpTime == {Undefined, Num(0), Num(59), Num(90065)}

getGpuLoad == {Undefined, Arr(<<>>), Arr(<<Gpu(8192, 2048, 375)>>),
               Arr(<<Gpu(8192, 0, 0), Gpu(4096, 1024, 1000)>>)}

sysinfoData(module, isDarwin) ==
  CASE module = "cpuLoad" -> getCpuLoad
    [] module = "loadavg" -> getLoadavg
    [] module = "networkSpeed" -> getNetworkSpeed
    [] module = "memoUsage" -> getMemoryUsage(isDarwin)
    [] module = "uptime" -> getUpTime
    [] module = "gpuLoad" -> getGpuLoad

\* ---------------------------------------------------------------- state
VARIABLES
  platform,     \* "win32", "darwin" or "linux": isWin32, isDarwin
  lifecycle,    \* the host's calls: "inactive", "active" (init called), "deactivated"
  context,      \* StatsBar._context: "null" or "ctx"
  psOpen,       \* the persistent PowerShell siInit acquires and siRelease releases
  allEnabled,   \* setting.cfg.get(AllEnabled)
  curModules,   \* setting.curModules
  cfgKinds,     \* the kind names the configuration store can deliver
  statusItems,  \* StatsBar.statusItems
  timer,        \* StatsBar.timer: "null", "live" or "cleared"
  inflight,     \* the getSysInfo calls awaiting Promise.all
  nextTick,     \* number of getSysInfo calls so far, plus one
  starts,       \* number of slot lists start() created so far
  last,         \* the getSysInfo call that ended last (resolved or rejected)
  fmtIn,        \* the formatter specification's input: a kind and a raw reading
  fmtOut        \* and what formatRes and the slot update made of it

vars == <<platform, lifecycle, context, psOpen, allEnabled, curModules, cfgKinds,
          statusItems, timer, inflight, nextTick, starts, last, fmtIn, fmtOut>>

isWin32 == platform = "win32"

isDarwin == platform = "darwin"

\* the kinds the configuration store selects from
CfgKinds == {"cpuLoad", "loadavg"}

RECURSIVE ListsUpTo(_, _)
\* the duplicate-free lists of at most n kinds of K
ListsUpTo(K, n) ==
  IF n = 0 THEN {<<>>}
  ELSE LET shorter == ListsUpTo(K, n - 1)
       IN  shorter \cup {Append(l, k) : l \in shorter, k \in K}

NoDup(l) == \A i, j \in 1..Len(l) : i # j => l[i] # l[j]

ModuleLists(K) == {l \in ListsUpTo(K, Cardinality(K)) : NoDup(l)}

NoTick == [id |-> 0, modules |-> <<>>, raw |-> <<>>, threw |-> FALSE, rejected |-> FALSE]

NoInput == [module |-> "", raw |-> Undefined]

NoOutput == [set |-> FALSE, data |-> [module |-> "", text |-> EmptyText, tooltip |-> ""],
             items |-> <<>>]

\* ----------------------------------------------------------- status items
\* window.createStatusBarItem; module, gen, by and newest are history fields:
\* the kind of the position the item was created for, the start() call that
\* created it, the getSysInfo call that wrote it last (0: none) and the
\* latest-started getSysInfo call that ever wrote it
createStatusBarItem(module, gen) ==
  [module |-> module, gen |-> gen, disposed |-> FALSE, text |-> EmptyText,
   tooltip |-> "", visible |-> FALSE, by |-> 0, newest |-> 0]

dispose(item) == [item EXCEPT !.disposed = TRUE]

\* on screen: show() was called and the item is not disposed
Shown(item) == item.visible /\ ~item.disposed

\* lines 58-60: text, tooltip, show()
writeItem(item, data, id) ==
  [item EXCEPT !.text = data.text,
               !.tooltip = IF data.tooltip # "" THEN data.tooltip
                           ELSE StatsModuleNameMap[data.module],
               !.visible = TRUE,
               !.by = id,
               !.newest = IF id > item.newest THEN id ELSE item.newest]

\* ------------------------------------------------------------ getSysInfo
Data(t, i) == formatRes(t.modules[i], t.raw[i], isDarwin)

\* forEachResult had a placeholder result hidden the item at its position
forEachResultHiding(items, t) ==
  [i \in 1..Len(items) |->
     IF i <= Len(t.modules)
       THEN IF Data(t, i).text # Placeholder
              THEN writeItem(items[i], Data(t, i), t.id)
              ELSE [items[i] EXCEPT !.visible = FALSE]
       ELSE items[i]]

\* forEachResult had a call skipped the items a later-started call has written
forEachResultNewestOnly(items, t) ==
  [i \in 1..Len(items) |->
     IF i <= Len(t.modules) /\ Data(t, i).text # Placeholder /\ items[i].newest <= t.id
       THEN writeItem(items[i], Data(t, i), t.id)
       ELSE items[i]]

\* lines 53-61: res.forEach over the items as they are when Promise.all resolves
forEachResult(items, t) ==
  [i \in 1..Len(items) |->
     IF i <= Len(t.modules) /\ Data(t, i).text # Placeholder
       THEN writeItem(items[i], Data(t, i), t.id)
       ELSE items[i]]

\* line 58 on an index past the end of statusItems: TypeError, the call rejects
Throws(items, t) ==
  \E i \in 1..Len(t.modules) : Data(t, i).text # Placeholder /\ i > Len(items)

Ended(t, threw, rejected) ==
  [id |-> t.id, modules |-> t.modules, raw |-> t.raw, threw |-> threw, rejected |-> rejected]

\* lines 47-52: every adapter is called at once; a kind sysinfoData does not
\* hold makes its promise, and with it Promise.all, reject
getSysInfo(mods, fl, id) ==
  LET t == [id |-> id, modules |-> mods, raw |-> [i \in 1..Len(mods) |-> Undefined]]
  IN  /\ nextTick' = id + 1
      /\ IF \E i \in 1..Len(mods) : mods[i] \notin StatsModule
           THEN inflight' = fl /\ last' = Ended(t, FALSE, TRUE)
           ELSE IF Len(mods) = 0
             THEN inflight' = fl /\ last' = Ended(t, FALSE, FALSE)
             ELSE inflight' = fl \cup {t} /\ last' = last

\* lines 40-45
update(mods) ==
  /\ getSysInfo(mods, inflight, nextTick)
  /\ timer' = "live"

clearInterval(tm) == IF tm = "null" THEN "null" ELSE "cleared"

\* lines 20-38, run with the timer field as cancelUpdate left it
start(ctx, en, mods, tm) ==
  IF ctx = "null"
    THEN timer' = tm /\ UNCHANGED <<statusItems, inflight, nextTick, starts, last>>
    ELSE IF ~en \/ Len(mods) = 0
      THEN /\ statusItems' = [i \in 1..Len(statusItems) |-> dispose(statusItems[i])]
           /\ timer' = tm
           /\ UNCHANGED <<inflight, nextTick, starts, last>>
      ELSE /\ statusItems' = [i \in 1..Len(mods) |-> createStatusBarItem(mods[i], starts + 1)]
           /\ starts' = starts + 1
           /\ update(mods)

\* start() goes on to create items and call getSysInfo
Creates(en, mods) == en /\ Len(mods) > 0

Room == nextTick <= MaxTicks /\ starts < MaxStarts

\* ------------------------------------------------------------- handlers
siInit == psOpen' = (isWin32 \/ psOpen)

siRelease == psOpen' = (~isWin32 /\ psOpen)

\* lines 14-18, called once by the host's activate
init ==
  /\ lifecycle = "inactive"
  /\ Creates(allEnabled, curModules) => Room
  /\ lifecycle' = "active"
  /\ context' = "ctx"
  /\ siInit
  /\ start("ctx", allEnabled, curModules, timer)
  /\ UNCHANGED <<platform, allEnabled, curModules, cfgKinds, fmtIn, fmtOut>>

\* lines 179-182, called by the configuration-change listener with the new
\* configuration already in the store
onSettingUpdate(en, mods) ==
  /\ lifecycle = "active"
  /\ Creates(en, mods) => Room
  /\ allEnabled' = en
  /\ curModules' = mods
  /\ start(context, en, mods, clearInterval(timer))
  /\ UNCHANGED <<platform, lifecycle, context, psOpen, cfgKinds, fmtIn, fmtOut>>

\* cancelUpdate had it called siRelease whatever isDeactivate is
cancelUpdateReleasing(isDeactivate) ==
  /\ lifecycle = "active"
  /\ lifecycle' = IF isDeactivate THEN "deactivated" ELSE lifecycle
  /\ psOpen' = (~isWin32 /\ psOpen)
  /\ timer' = IF timer = "null" THEN "null" ELSE "cleared"
  /\ UNCHANGED <<platform, context, allEnabled, curModules, cfgKinds, statusItems,
                 inflight, nextTick, starts, last, fmtIn, fmtOut>>

\* lines 184-191
cancelUpdate(isDeactivate) ==
  /\ lifecycle = "active"
  /\ lifecycle' = IF isDeactivate THEN "deactivated" ELSE lifecycle
  /\ IF isDeactivate THEN siRelease ELSE psOpen' = psOpen
  /\ timer' = clearInterval(timer)
  /\ UNCHANGED <<platform, context, allEnabled, curModules, cfgKinds, statusItems,
                 inflight, nextTick, starts, last, fmtIn, fmtOut>>

\* the interval callback had it waited for the calls in flight
TimerFireWhenIdle ==
  /\ timer = "live"
  /\ inflight = {}
  /\ nextTick <= MaxTicks
  /\ getSysInfo(curModules, inflight, nextTick)
  /\ UNCHANGED <<platform, lifecycle, context, psOpen, allEnabled, curModules, cfgKinds,
                 statusItems, timer, starts, fmtIn, fmtOut>>

\* lines 42-44: the interval fires
TimerFire ==
  /\ timer = "live"
  /\ nextTick <= MaxTicks
  /\ getSysInfo(curModules, inflight, nextTick)
  /\ UNCHANGED <<platform, lifecycle, context, psOpen, allEnabled, curModules, cfgKinds,
                 statusItems, timer, starts, fmtIn, fmtOut>>

RECURSIVE Results(_, _)
\* what the adapters of the kinds mods can resolve to, position by position
Results(mods, isD) ==
  IF Len(mods) = 0 THEN {<<>>}
  ELSE {<<v>> \o r : v \in sysinfoData(mods[1], isD), r \in Results(Tail(mods), isD)}

\* lines 49-61: the adapters of call t have resolved to raw, Promise.all
\* resolves and the results are written.  The adapters settle one by one, in
\* any order, and nothing reads or writes the driver's state before the last
\* one has: the call is in flight until this step, for ever if one adapter
\* never settles
PromiseAllResolve(t, raw) ==
  /\ t \in inflight
  /\ LET u == [t EXCEPT !.raw = raw]
     IN  /\ statusItems' = forEachResult(statusItems, u)
         /\ inflight' = inflight \ {t}
         /\ last' = Ended(u, Throws(statusItems, u), FALSE)
  /\ UNCHANGED <<platform, lifecycle, context, psOpen, allEnabled, curModules, cfgKinds,
                 timer, nextTick, starts, fmtIn, fmtOut>>

Settle ==
  \E t \in inflight : \E raw \in Results(t.modules, isDarwin) : PromiseAllResolve(t, raw)

Configure == \E en \in BOOLEAN : \E mods \in ModuleLists(cfgKinds) : onSettingUpdate(en, mods)

Deactivate == cancelUpdate(TRUE)

Stop == cancelUpdate(FALSE)

Idle ==
  /\ lifecycle = "inactive"
  /\ context = "null"
  /\ psOpen = FALSE
  /\ statusItems = <<>>
  /\ timer = "null"
  /\ inflight = {}
  /\ nextTick = 1
  /\ starts = 0
  /\ last = NoTick
  /\ fmtIn = NoInput
  /\ fmtOut = NoOutput

\* darwin differs from linux in getMemoryUsage and formatMemoUsage alone, which
\* SpecFormat covers on the three platforms
Init ==
  /\ platform \in {"win32", "linux"}
  /\ cfgKinds = CfgKinds
  /\ allEnabled \in BOOLEAN
  /\ curModules \in ModuleLists(cfgKinds)
  /\ Idle

Next == init \/ Configure \/ Stop \/ Deactivate \/ TimerFire \/ Settle

Spec == Init /\ [][Next]_vars

\* --------------------------------------------- unknown kinds in the store
\* The same driver when the configuration store also delivers a kind name
\* that sysinfoData and the formatter table do not hold.
InitUnknown ==
  /\ platform \in {"win32", "linux"}
  /\ cfgKinds = CfgKinds \cup {UnknownModule}
  /\ allEnabled \in BOOLEAN
  /\ curModules \in ModuleLists(cfgKinds)
  /\ Idle

SpecUnknown == InitUnknown /\ [][Next]_vars

\* ------------------------------------------------- the formatters alone
\* raw values formatRes is applied to: what the adapters resolve to, and
\* further values of the same shapes
RawSamples(module, isD) ==
  sysinfoData(module, isD) \cup
    (CASE module = "cpuLoad" -> {Num(4), Num(5), Num(1000)}
       [] module = "loadavg" -> {Arr(<<1234, 500>>), Arr(<<>>), Arr(<<0, 0, 0>>)}
       [] module = "networkSpeed" -> {Net(0, 0), Net(1023, 1536), Net(1048576, 512)}
       [] module = "uptime" -> {Num(1), Num(86400)}
       [] OTHER -> {})

FormatInputs(isD) ==
  UNION {{[module |-> m, raw |-> r] : r \in RawSamples(m, isD)} : m \in StatsModule}

\* getSysInfo for the one kind fmtIn.module, on a fresh item, resolving to fmtIn.raw
FormatOne ==
  /\ fmtOut.set = FALSE
  /\ LET u == [id |-> 1, modules |-> <<fmtIn.module>>, raw |-> <<fmtIn.raw>>]
     IN  fmtOut' = [set |-> TRUE, data |-> Data(u, 1),
                    items |-> forEachResult(<<createStatusBarItem(fmtIn.module, 1)>>, u)]
  /\ UNCHANGED <<platform, lifecycle, context, psOpen, allEnabled, curModules, cfgKinds,
                 statusItems, timer, inflight, nextTick, starts, last, fmtIn>>

NextInput ==
  /\ fmtOut.set
  /\ fmtIn' \in FormatInputs(isDarwin)
  /\ fmtOut' = NoOutput
  /\ UNCHANGED <<platform, lifecycle, context, psOpen, allEnabled, curModules, cfgKinds,
                 statusItems, timer, inflight, nextTick, starts, last>>

InitFormat ==
  /\ platform \in {"win32", "darwin", "linux"}
  /\ lifecycle = "inactive"
  /\ context = "null"
  /\ psOpen = FALSE
  /\ cfgKinds = CfgKinds
  /\ allEnabled = TRUE
  /\ curModules = <<>>
  /\ statusItems = <<>>
  /\ timer = "null"
  /\ inflight = {}
  /\ nextTick = 1
  /\ starts = 0
  /\ last = NoTick
  /\ fmtIn \in FormatInputs(isDarwin)
  /\ fmtOut = NoOutput

NextFormat == FormatOne \/ NextInput

SpecFormat == InitFormat /\ [][NextFormat]_vars

\* ------------------------------------------------------------ properties
\* the kinds the driver is to show: none before init and none while the
\* global flag is off
EnabledKinds == IF context = "ctx" /\ allEnabled THEN curModules ELSE <<>>

\* this step is a getSysInfo call ending (last' is the call)
Resolves == last'.id # last.id /\ ~last'.rejected

\* the formatted text of result j of an ended call
TextOf(t, j) == Data(t, j).text

\* the reading of kind module that counts as missing
Missing(module, raw) == ~raw.def \/ (module = "gpuLoad" /\ Len(raw.arr) = 0)

\* C1: in every reachable state the slot list has the length and order of
\* the enabled kinds, slot i belongs to the i-th enabled kind, and no two
\* slots belong to the same kind.
C1_SlotsMatchEnabledKinds ==
  /\ Len(statusItems) = Len(EnabledKinds)
  /\ \A i \in 1..Len(statusItems) : statusItems[i].module = EnabledKinds[i]
  /\ \A i, j \in 1..Len(statusItems) : i # j => statusItems[i].module # statusItems[j].module

\* C2: whenever init or onSettingUpdate runs with the global flag off or with
\* no kind enabled, the driver ends with an empty slot list and no live timer.
C2_DisabledLeavesNoSlotsNoTimer ==
  [][((init \/ Configure) /\ (~allEnabled' \/ Len(curModules') = 0))
       => (Len(statusItems') = 0 /\ timer' # "live")]_vars

\* C3: when a call of getSysInfo ends in which some adapter failed, every
\* other kind whose adapter yielded a reading has the slot at its position
\* written with its text and shown.
C3_FailureLeavesOthersUpdated ==
  [][(Resolves /\ \E i \in 1..Len(last'.modules) : ~last'.raw[i].def)
       => \A j \in 1..Len(last'.modules) :
            (last'.raw[j].def /\ ~Missing(last'.modules[j], last'.raw[j])
               /\ j <= Len(statusItems))
              => /\ statusItems'[j].by = last'.id
                 /\ statusItems'[j].text = TextOf(last', j)
                 /\ statusItems'[j].visible]_vars

\* C4: a result that is the placeholder leaves the slot at its position as it
\* was: text, tooltip and visibility are untouched, so a slot that was shown
\* stays shown with its last text.
C4_PlaceholderLeavesSlot ==
  [][Resolves
       => \A j \in 1..Len(last'.modules) :
            (TextOf(last', j) = Placeholder /\ j <= Len(statusItems))
              => statusItems'[j] = statusItems[j]]_vars

\* C4's case: a slot on screen with a text some call wrote, and a call that
\* ended later with the placeholder for that position.
C4_Witness ==
  \E j \in 1..Len(statusItems) :
    /\ Shown(statusItems[j])
    /\ statusItems[j].by # 0
    /\ statusItems[j].text # EmptyText
    /\ last.id # statusItems[j].by
    /\ ~last.rejected
    /\ j <= Len(last.modules)
    /\ TextOf(last, j) = Placeholder

\* C5: whenever a call writes result j, the slot at position j exists, is not
\* disposed, and belongs to the kind the result was computed for.
C5_WritesHitLiveSlotOfSameKind ==
  [][Resolves
       => \A j \in 1..Len(last'.modules) :
            TextOf(last', j) # Placeholder
              => /\ j <= Len(statusItems)
                 /\ ~statusItems[j].disposed
                 /\ statusItems[j].module = last'.modules[j]]_vars

C7_TicksStartRegardlessOfInflight ==
  /\ [][(timer' = "live" /\ (timer # "live" \/ starts' # starts))
          => nextTick' = nextTick + 1]_vars
  /\ []((timer = "live" /\ nextTick <= MaxTicks) => ENABLED TimerFire)

\* C7's case: a call whose adapters have not settled is in flight, the timer
\* is live, and a call started after it has written a slot that is on screen.
C7_Witness ==
  /\ timer = "live"
  /\ \E t \in inflight : \E j \in 1..Len(statusItems) :
       statusItems[j].by > t.id /\ Shown(statusItems[j])

\* C8: the formatter returns the placeholder exactly when the reading is
\* missing (for gpuLoad: missing or an empty list); every reading that is
\* present is rendered and written to the slot, which is shown.
C8_PlaceholderIffMissing ==
  fmtOut.set =>
    /\ (fmtOut.data.text = Placeholder) <=> Missing(fmtIn.module, fmtIn.raw)
    /\ ~Missing(fmtIn.module, fmtIn.raw)
         => (fmtOut.items[1].text = fmtOut.data.text /\ Shown(fmtOut.items[1]))

\* C9: a call of getSysInfo over a list holding a kind with no adapter and no
\* formatter ends without anything thrown.
C9_UnknownKindYieldsPlaceholder ==
  (last.id # 0 /\ \E i \in 1..Len(last.modules) : last.modules[i] \notin StatsModule)
    => (~last.rejected /\ ~last.threw)

\* C10: no slot is overwritten by a call that started before the call whose
\* data it shows: each slot shows the data of the latest-started call that
\* wrote it.
C10_NeverBackInTime ==
  \A j \in 1..Len(statusItems) : statusItems[j].by = statusItems[j].newest

\* C10 as amended: the calls are unserialised and the last one to end wins.  A
\* call that ends writes each result that is not the placeholder into the
\* slot at its position, whichever call wrote that slot before, and leaves
\* every other slot as it was; no other step changes what a slot shows.
C10_LastResolvedWins ==
  /\ [][Resolves
          => \A j \in 1..Len(statusItems) :
               IF j <= Len(last'.modules) /\ TextOf(last', j) # Placeholder
                 THEN /\ statusItems'[j].by = last'.id
                      /\ statusItems'[j].text = TextOf(last', j)
                 ELSE statusItems'[j] = statusItems[j]]_vars
  /\ [][(last' = last /\ starts' = starts)
          => \A j \in 1..Len(statusItems) :
               /\ j <= Len(statusItems')
               /\ statusItems'[j].by = statusItems[j].by
               /\ statusItems'[j].text = statusItems[j].text]_vars

\* C10's case: a slot shows the data of a call that started before another
\* call that wrote it earlier.
C10_Witness ==
  \E j \in 1..Len(statusItems) :
    /\ statusItems[j].by # 0
    /\ statusItems[j].by < statusItems[j].newest
    /\ Shown(statusItems[j])

====
